---------------------------- MODULE Spec2Model ----------------------------
(***************************************************************************)
(* BluePay API (src/main.py, src/schemas.py): a FastAPI facade over two    *)
(* MongoDB collections, "customer" and "payment".                          *)
(*                                                                         *)
(* The handlers create_customer, list_customers, authorize_payment and     *)
(* list_payments each make one store call and are one step.  The handler   *)
(* capture_payment makes three store calls (find_one, update_one,          *)
(* find_one) with a local status check in between; concurrent requests     *)
(* interleave between those calls, so it is four steps per caller.         *)
(*                                                                         *)
(* Python values: Optional[T] is a sequence of length <= 1 (None == <<>>); *)
(* an ObjectId is a positive integer; a str holding an id is a record      *)
(* [kind, n] (kind "hex": the 24-digit form of ObjectId n, kind "text":    *)
(* any other string); a currency is a sequence of characters; a document   *)
(* is a record; a collection is the sequence of its documents in insertion *)
(* order.                                                                  *)
(***************************************************************************)
EXTENDS Integers, Sequences, FiniteSets, TLC

\* Bounds of the model: documents per collection.
MaxPayments == 2
MaxCustomers == 1

MaxId == MaxPayments + MaxCustomers

Callers == {"c1", "c2"}

None == <<>>
Some(v) == <<v>>

\* schemas.Payment.status: Literal['authorized','captured','failed']
Statuses == {"authorized", "captured", "failed"}

USD == <<"U", "S", "D">>
usd == <<"u", "s", "d">>

\* str(ObjectId): the 24-digit hexadecimal form of an ObjectId.
Str(oid) == [kind |-> "hex", n |-> oid]
NotHex == [kind |-> "text", n |-> 0]

\* ObjectId(payment_id) raises unless the string is a 24-digit hex string.
ObjectIdValid(s) == s.kind = "hex" /\ s.n >= 1
ObjectId(s) == s.n

\* ---- request inputs ----
Amounts == {0, 1}
Currencies == {USD, usd, <<"U", "S">>}
IdStrings == {Str(n) : n \in 1..MaxId} \cup {NotHex}
\* schemas.Customer: name and email are required, business is optional.
CustomerInputs ==
  [name : {"Ada"}, email : {"ada@example.com"}, business : {None}]
\* limit: a count of documents (50 is list_payments' default)
Limits == {0, 1, 50}
StatusFilters == {None, Some("")} \cup {Some(s) : s \in Statuses}

VARIABLES
  dbAvailable,  \* database.db is not None
  customer,     \* db["customer"]
  payment,      \* db["payment"]
  nextId,       \* the next ObjectId the store generates
  pc,           \* capture_payment: each caller's position
  oid,          \* capture_payment: local oid
  doc,          \* capture_payment: local doc
  resp,         \* capture_payment: each caller's response
  updates,      \* update_one calls that matched, per payment _id
  last          \* the last request served by a one-step handler

vars == <<dbAvailable, customer, payment, nextId, pc, oid, doc, resp, updates, last>>
store == <<customer, payment, nextId>>
capture == <<pc, oid, doc, resp, updates>>

\* A request's customer_id: absent, a string that is no id at all, or the id
\* of a customer on file.
CustomerIds ==
  {None, Some(NotHex)} \cup {Some(Str(customer[i]["_id"])) : i \in DOMAIN customer}
PaymentInputs ==
  [amount : Amounts, currency : Currencies, description : {None},
   customer_id : CustomerIds, status : Statuses]

\* ---- schemas.py ----
\* (variant: amount declared ge=0)
PaymentValidGe0(p) ==
  /\ p.amount >= 0
  /\ Len(p.currency) = 3
  /\ p.status \in Statuses

\* Payment: amount ge=1, currency min_length=3 max_length=3, status Literal.
PaymentValid(p) ==
  /\ p.amount >= 1
  /\ Len(p.currency) = 3
  /\ p.status \in Statuses

\* ---- pymongo ----
Matches(d, filt) == \A k \in DOMAIN filt : k \in DOMAIN d /\ d[k] = filt[k]

Find(coll, filt) == SelectSeq(coll, LAMBDA d : Matches(d, filt))

\* (variant: the filter is dropped)
find_one_any(coll, filt) == IF coll = <<>> THEN None ELSE Some(coll[1])

find_one(coll, filt) ==
  LET hit == Find(coll, filt) IN IF hit = <<>> THEN None ELSE Some(hit[1])

FirstMatch(coll, filt) ==
  CHOOSE i \in DOMAIN coll :
    Matches(coll[i], filt) /\ \A j \in 1..(i - 1) : ~Matches(coll[j], filt)

update_one(coll, filt, field, value) ==
  IF Find(coll, filt) = <<>> THEN coll
  ELSE [coll EXCEPT ![FirstMatch(coll, filt)] =
          [k \in DOMAIN @ \cup {field} |-> IF k = field THEN value ELSE @[k]]]

\* ---- database.py (its source is not on file: the store contract of the
\* specification, sections 4.1 and 4.4: put_new stores a record under a fresh
\* id; a listing is in creation order, filtered by exact match, bounded by
\* limit) ----
insert(d, id) == [k \in DOMAIN d \cup {"_id"} |-> IF k = "_id" THEN id ELSE d[k]]

Take(s, n) == SubSeq(s, 1, IF n < Len(s) THEN n ELSE Len(s))

get_documents(coll, filt, limit) == Take(Find(coll, filt), limit)

\* ---- main.py helpers ----
HTTPException(code, detail) == [code |-> code, detail |-> detail]
Ok(body) == [code |-> 200, body |-> body]

serialize_doc(d) ==
  IF "_id" \in DOMAIN d
  THEN [k \in (DOMAIN d \ {"_id"}) \cup {"id"} |->
          IF k = "id" THEN Str(d["_id"]) ELSE d[k]]
  ELSE d

\* [serialize_doc(d) for d in docs]
serialize_docs(docs) == [i \in DOMAIN docs |-> serialize_doc(docs[i])]

\* create_document(collection_name, data): stores the document under a fresh
\* _id and returns str(_id); the handlers turn its failure without a database
\* into a 500 response.
create_document(coll, data) == Append(coll, insert(data, nextId))

\* ---- state ----
NoDoc == None
Idle == [code |-> 0]
Served(op, req, r) == [op |-> op, req |-> req, resp |-> r]

\* A document of the payment collection as schemas.Payment describes it.
StoredPayment(st, id) ==
  insert([amount |-> 1, currency |-> USD, description |-> None,
          customer_id |-> None, status |-> st], id)

\* The database outlives the process: the service starts over a payment
\* collection that is empty or already holds Payment documents, each with a
\* status of the schema's Literal.  Without a database (db is None) there is
\* no collection to hold anything.
StoredPayments ==
  UNION {{[i \in 1..n |-> StoredPayment(st[i], i)] : st \in [1..n -> Statuses]} :
         n \in 0..MaxPayments}

Init ==
  /\ dbAvailable \in BOOLEAN
  /\ customer = <<>>
  /\ payment \in (IF dbAvailable THEN StoredPayments ELSE {<<>>})
  /\ nextId = Len(payment) + 1
  /\ pc = [c \in Callers |-> "idle"]
  /\ oid = [c \in Callers |-> 0]
  /\ doc = [c \in Callers |-> NoDoc]
  /\ resp = [c \in Callers |-> Idle]
  /\ updates = [i \in 1..MaxId |-> 0]
  /\ last = Served("none", None, Idle)

\* ---- POST /api/customers ----
create_customer(payload) ==
  /\ IF ~dbAvailable
     THEN /\ last' = Served("create_customer", payload, HTTPException(500, "Database not available"))
          /\ UNCHANGED store
     ELSE /\ Len(customer) < MaxCustomers
          /\ customer' = create_document(customer, payload)
          /\ nextId' = nextId + 1
          /\ last' = Served("create_customer", payload, Ok([id |-> Str(nextId)]))
          /\ UNCHANGED payment
  /\ UNCHANGED <<dbAvailable, capture>>

\* ---- GET /api/customers ----
list_customers(limit) ==
  /\ last' = Served("list_customers", [limit |-> limit],
                    IF ~dbAvailable
                    THEN HTTPException(500, "Database not available")
                    ELSE Ok(serialize_docs(get_documents(customer, <<>>, limit))))
  /\ UNCHANGED <<dbAvailable, store, capture>>

\* ---- POST /api/payments ----
AuthorizedData(payload) == [payload EXCEPT !.status = "authorized"]

authorize_payment(payload) ==
  /\ IF ~PaymentValid(payload)
     THEN /\ last' = Served("authorize_payment", payload, HTTPException(422, "validation"))
          /\ UNCHANGED store
     ELSE IF ~dbAvailable
     THEN /\ last' = Served("authorize_payment", payload, HTTPException(500, "Database not available"))
          /\ UNCHANGED store
     ELSE /\ Len(payment) < MaxPayments
          /\ payment' = create_document(payment, AuthorizedData(payload))
          /\ nextId' = nextId + 1
          /\ last' = Served("authorize_payment", payload, Ok([id |-> Str(nextId)]))
          /\ UNCHANGED customer
  /\ UNCHANGED <<dbAvailable, capture>>

\* ---- GET /api/payments ----
\* (variant: the status parameter never reaches the filter)
StatusFilterDropped(status) == <<>>

\* filt = {}; if status: filt["status"] = status
StatusFilter(status) ==
  IF status # None /\ status[1] # "" THEN [status |-> status[1]] ELSE <<>>

list_payments(limit, status) ==
  /\ last' = Served("list_payments", [limit |-> limit, status |-> status],
                    IF ~dbAvailable
                    THEN HTTPException(500, "Database not available")
                    ELSE Ok(serialize_docs(
                                get_documents(payment, StatusFilter(status), limit))))
  /\ UNCHANGED <<dbAvailable, store, capture>>

\* ---- POST /api/payments/{payment_id}/capture ----
Finish(c, r) ==
  /\ pc' = [pc EXCEPT ![c] = "done"]
  /\ resp' = [resp EXCEPT ![c] = r]

\* lines 120-129: db check, ObjectId(payment_id), first find_one
capture_payment_find(c, payment_id) ==
  /\ pc[c] = "idle"
  /\ IF ~dbAvailable
     THEN /\ Finish(c, HTTPException(500, "Database not available"))
          /\ UNCHANGED <<oid, doc>>
     ELSE IF ~ObjectIdValid(payment_id)
     THEN /\ Finish(c, HTTPException(400, "Invalid payment id"))
          /\ UNCHANGED <<oid, doc>>
     ELSE LET found == find_one(payment, [_id |-> ObjectId(payment_id)]) IN
          /\ oid' = [oid EXCEPT ![c] = ObjectId(payment_id)]
          /\ IF found = None
             THEN /\ Finish(c, HTTPException(404, "Payment not found"))
                  /\ UNCHANGED doc
             ELSE /\ doc' = [doc EXCEPT ![c] = found]
                  /\ pc' = [pc EXCEPT ![c] = "check"]
                  /\ UNCHANGED resp
  /\ UNCHANGED <<dbAvailable, store, updates, last>>

\* lines 130-131: if doc.get("status") == "captured": return serialize_doc(doc)
capture_payment_check(c) ==
  /\ pc[c] = "check"
  /\ IF doc[c][1].status = "captured"
     THEN Finish(c, Ok(serialize_doc(doc[c][1])))
     ELSE /\ pc' = [pc EXCEPT ![c] = "update"]
          /\ UNCHANGED resp
  /\ UNCHANGED <<dbAvailable, store, oid, doc, updates, last>>

\* line 133: update_one({"_id": oid}, {"$set": {"status": "captured"}})
capture_payment_update(c) ==
  /\ pc[c] = "update"
  /\ payment' = update_one(payment, [_id |-> oid[c]], "status", "captured")
  /\ updates' = [updates EXCEPT ![oid[c]] =
                   IF Find(payment, [_id |-> oid[c]]) = <<>> THEN @ ELSE @ + 1]
  /\ pc' = [pc EXCEPT ![c] = "reread"]
  /\ UNCHANGED <<dbAvailable, customer, nextId, oid, doc, resp, last>>

\* (variant: the record read before the update is returned)
capture_payment_reread_stale(c) ==
  /\ pc[c] = "reread"
  /\ Finish(c, Ok(serialize_doc(doc[c][1])))
  /\ UNCHANGED <<dbAvailable, store, oid, doc, updates, last>>

\* lines 134-135: updated = find_one(...); return serialize_doc(updated)
capture_payment_reread(c) ==
  /\ pc[c] = "reread"
  /\ LET updated == find_one(payment, [_id |-> oid[c]]) IN
       Finish(c, IF updated = None
                 THEN HTTPException(500, "Internal Server Error")
                 ELSE Ok(serialize_doc(updated[1])))
  /\ UNCHANGED <<dbAvailable, store, oid, doc, updates, last>>

\* The response is delivered; the caller may send its next request.
Return(c) ==
  /\ pc[c] = "done"
  /\ pc' = [pc EXCEPT ![c] = "idle"]
  /\ oid' = [oid EXCEPT ![c] = 0]
  /\ doc' = [doc EXCEPT ![c] = NoDoc]
  /\ resp' = [resp EXCEPT ![c] = Idle]
  /\ UNCHANGED <<dbAvailable, store, updates, last>>

capture_payment(c) ==
  \/ \E payment_id \in IdStrings : capture_payment_find(c, payment_id)
  \/ capture_payment_check(c)
  \/ capture_payment_update(c)
  \/ capture_payment_reread(c)
  \/ Return(c)

\* The handlers that make one store call.  They never read or write a
\* capture request's locals, and a capture request only rewrites the status
\* of a document already on file, so the two groups are checked apart: the
\* statuses a capture leaves behind are among those Init starts from.
Next ==
  \/ \E payload \in CustomerInputs : create_customer(payload)
  \/ \E limit \in Limits : list_customers(limit)
  \/ \E payload \in PaymentInputs : authorize_payment(payload)
  \/ \E limit \in Limits, status \in StatusFilters : list_payments(limit, status)

Spec == Init /\ [][Next]_vars

\* Concurrent capture requests over the payments on file.
NextCapture == \E c \in Callers : capture_payment(c)

SpecCapture == Init /\ [][NextCapture]_vars

\* ---- properties ----
Stored(id) == find_one(payment, [_id |-> id])[1]
Found(c) == pc[c] = "done" /\ doc[c] # NoDoc
Captured(r) == r.code = 200 /\ r.body.status = "captured"
IsUpper(ch) == ch \in {"U", "S", "D"}
Resolves(cid) == \E i \in DOMAIN customer : Str(customer[i]["_id"]) = cid[1]
Min(a, b) == IF a < b THEN a ELSE b
Position(id) == CHOOSE j \in DOMAIN payment : Str(payment[j]["_id"]) = id

\* C1: two capture calls on a payment that was authorized, run one after the
\* other or interleaved, both return 200 with a record whose status is
\* captured, and the stored status is then captured.
C1_BothCapturesReturnCaptured ==
  \A c, d \in Callers :
    (/\ c # d /\ Found(c) /\ Found(d) /\ oid[c] = oid[d]
     /\ "authorized" \in {doc[c][1].status, doc[d][1].status})
    => /\ Captured(resp[c])
       /\ Captured(resp[d])
       /\ Stored(oid[c]).status = "captured"

\* C1 witness: both calls read the payment while it was authorized (they were
\* interleaved) and both have returned.
C1_Witness ==
  \E c, d \in Callers :
    /\ c # d /\ Found(c) /\ Found(d) /\ oid[c] = oid[d]
    /\ doc[c][1].status = "authorized" /\ doc[d][1].status = "authorized"
    /\ Captured(resp[c]) /\ Captured(resp[d])

\* C2: of two concurrent capture calls on an authorized payment exactly one
\* writes the status to the store, and the payment's version ends at 1.
C2_ExactlyOneWrite ==
  \A c, d \in Callers :
    (/\ c # d /\ Found(c) /\ Found(d) /\ oid[c] = oid[d]
     /\ doc[c][1].status = "authorized" /\ doc[d][1].status = "authorized")
    => /\ updates[oid[c]] = 1
       /\ "version" \in DOMAIN Stored(oid[c])
       /\ Stored(oid[c])["version"] = 1

C5_AuthorizeStoresVersionZero ==
  [][(/\ last'.op = "authorize_payment"
      /\ authorize_payment(last'.req)
      /\ PaymentValid(last'.req)
      /\ dbAvailable)
     => /\ Len(payment') = Len(payment) + 1
        /\ payment'[Len(payment')].status = "authorized"
        /\ "version" \in DOMAIN payment'[Len(payment')]
        /\ payment'[Len(payment')]["version"] = 0]_vars

\* C6: authorize_payment with amount < 1 answers with the validation error
\* (422) and leaves both collections and the id counter as they were.
C6_AmountBelowOneRejected ==
  [][(/\ last'.op = "authorize_payment"
      /\ authorize_payment(last'.req)
      /\ last'.req.amount < 1)
     => /\ last'.resp.code = 422
        /\ UNCHANGED store]_vars

\* C6 witness: a request with amount < 1 has been answered.
C6_Witness ==
  /\ last.op = "authorize_payment"
  /\ last.req.amount < 1
  /\ last.resp.code = 422

\* C7: every stored payment's currency is 3 characters, all uppercase.
C7_StoredCurrencyUppercase ==
  \A i \in DOMAIN payment :
    /\ Len(payment[i].currency) = 3
    /\ \A k \in 1..Len(payment[i].currency) : IsUpper(payment[i].currency[k])

\* C8: authorize_payment with a customer_id that is no customer's id answers
\* NotFound (404), and every stored payment's customer_id is a customer's id.
C8_UnknownCustomerRejected ==
  /\ (/\ last.op = "authorize_payment"
      /\ dbAvailable
      /\ PaymentValid(last.req)
      /\ last.req.customer_id # None
      /\ ~Resolves(last.req.customer_id))
     => last.resp.code = 404
  /\ \A i \in DOMAIN payment :
       payment[i].customer_id # None => Resolves(payment[i].customer_id)

\* A list_payments request is answered in this step.
ListPaymentsAnswered ==
  /\ last'.op = "list_payments"
  /\ list_payments(last'.req.limit, last'.req.status)
  /\ last'.resp.code = 200

InCreationOrder(body) ==
  /\ \A i \in DOMAIN body : \E j \in DOMAIN payment : body[i].id = Str(payment[j]["_id"])
  /\ \A i, j \in DOMAIN body : i < j => Position(body[i].id) < Position(body[j].id)

NoRecord(payment_id) ==
  \A i \in DOMAIN payment : Str(payment[i]["_id"]) # payment_id

\* C10 as stated: with the database available, a capture call that found no
\* payment record has answered NotFound (404).
C10_MissingPaymentNotFound ==
  \A c \in Callers :
    (dbAvailable /\ pc[c] = "done" /\ doc[c] = NoDoc) => resp[c].code = 404

\* C10 (amended): a capture call on an id with no payment record returns at
\* once and leaves the store unchanged; it answers 404 for a well-formed id,
\* 400 for a malformed one, and 500 when there is no database.
C10_MissingPaymentLeavesStore ==
  [][\A c \in Callers, payment_id \in IdStrings :
       (capture_payment_find(c, payment_id) /\ NoRecord(payment_id))
       => /\ pc'[c] = "done"
          /\ resp'[c].code = (IF ~dbAvailable THEN 500
                              ELSE IF ObjectIdValid(payment_id) THEN 404 ELSE 400)
          /\ UNCHANGED <<store, updates>>]_vars

\* C10 witness: a capture call was answered 404 while payments are on file.
C10_Witness ==
  \E c \in Callers :
    pc[c] = "done" /\ doc[c] = NoDoc /\ resp[c].code = 404 /\ payment # <<>>

=============================================================================
